---------------------------- MODULE Spec2Model ----------------------------
(***************************************************************************)
(* Model of broom's duplicate-message handler (src/src/main.rs).           *)
(*                                                                         *)
(* Handler::message is modelled step by step, one action per stretch of    *)
(* code between two suspension points (.await).  The shared state is the   *)
(* moka cache behind a tokio RwLock; every running handler invocation is   *)
(* a slot h \in Handlers with its own program counter and locals.          *)
(*                                                                         *)
(* Time is counted in ticks, TicksPerSec ticks to the second, so that the  *)
(* truncation of Duration::as_secs is visible.  Two clocks matter in the   *)
(* code: the handler's own `now` (line 45), captured before it waits for   *)
(* the locks, and the cache's clock, read by moka when get / insert run.   *)
(* Both read the variable clock, at the step where the code reads them.    *)
(*                                                                         *)
(* The cache is moka's future::Cache built with time_to_idle (lines        *)
(* 100-104): an entry expires once the idle duration has passed since its  *)
(* last get or insert, by the cache's clock; an expired entry is never     *)
(* returned, and is removed some time later by the cache's housekeeping.   *)
(* tokio's RwLock admits readers while no writer holds the guard; the read *)
(* guard of line 48 is taken and dropped without a suspension point in     *)
(* between, so the lookup is one step; the write guard of line 50 is held  *)
(* across the await of insert, so taking it and inserting are two steps.   *)
(*                                                                         *)
(* Option<T> is modelled as a set with at most one element: None is {},    *)
(* Some(x) is {x}.                                                         *)
(***************************************************************************)
EXTENDS Integers, Sequences, FiniteSets, TLC

(* ----------------------------- bounds --------------------------------- *)
\* handler invocations that may run concurrently
NumHandlers == 2
\* messages delivered in one run, of any author and text
MaxMsgs == 2
\* messages delivered in one run in which one author reposts one text
MaxReposts == 3
\* ticks by which the clock may run past the start and past the long jump
MaxDelay == 2
\* resolution of the clock
TicksPerSec == 2

(* ------------------------ program constants --------------------------- *)
TIME_TO_IDLE_IN_SECS == 120
MIN_MESSAGE_LENGTH == 50

\* Duration::from_secs(TIME_TO_IDLE_IN_SECS), in ticks
IdleTicks == TIME_TO_IDLE_IN_SECS * TicksPerSec

(* ------------------------------ inputs -------------------------------- *)
Handlers == 1..NumHandlers

\* msg.content: the text of len characters that are all "a" but the last one.
\* Two such texts are the same string iff they agree in len and in last.
Text(n, c) == [len |-> n, last |-> c]
\* String::len
StrLen(content) == content.len

\* a text of exactly MIN_MESSAGE_LENGTH characters: not tracked
ShortText == Text(MIN_MESSAGE_LENGTH, "a")
\* two tracked texts that differ in their last character only
TextA == Text(MIN_MESSAGE_LENGTH + 1, "a")
TextB == Text(MIN_MESSAGE_LENGTH + 1, "b")

\* (msg.author.id, msg.content) of the messages delivered
Inbound == {<<1, TextA>>, <<1, TextB>>, <<2, TextA>>, <<1, ShortText>>}

\* the message one author posts again and again
Reposted == <<1, TextA>>

\* the instants the clock visits: the first ticks, and the ticks around the
\* idle deadline of an entry written in those first ticks
Instants == (0..MaxDelay) \cup {IdleTicks - 1 + a : a \in 0..MaxDelay}

(* ------------------------------ state --------------------------------- *)
VARIABLES
    clock,      \* Instant::now(), in ticks
    cache,      \* Cache<(UserId, String), Instant>: key -> {} or {[value, accessed]}
    writer,     \* holder of cache_lock's write guard, 0 when free
    readers,    \* holders of cache_lock's read guards
    pc,         \* position of each handler invocation
    msg,        \* its message (author id, content)
    now,        \* its local `now`
    timestamp,  \* its local `timestamp`
    tsPutOnly,  \* what a cache refreshed by put alone would have returned instead
    getAt,      \* cache clock when its get ran
    start,      \* evaluations of its key completed when it captured `now`
    idx,        \* place of its decision in the record of its key
    msgs,       \* messages delivered so far
    log         \* per (author, text): its completed evaluations, in order of completion

vars == <<clock, cache, writer, readers, pc, msg, now, timestamp, tsPutOnly, getAt,
          start, idx, msgs, log>>

\* the (author, text) pairs long enough to be tracked
Keys == {m \in Inbound : StrLen(m[2]) > MIN_MESSAGE_LENGTH}

(* ------------------------- the moka cache ----------------------------- *)
\* (mutant) an entry that is still live at the instant its idle duration ends
IsExpiredLate(e, t) == e.accessed + IdleTicks < t

\* time_to_idle: an entry is expired once the idle duration has passed since
\* its last access (get or insert)
IsExpired(e, t) == e.accessed + IdleTicks <= t

\* (mutant) a lookup that matches entries on the text alone, whoever wrote it
CacheGetByText(c, k, t) ==
    {e.value : e \in {x \in UNION {c[j] : j \in {i \in DOMAIN c : i[2] = k[2]}} :
                         ~IsExpired(x, t)}}

\* Cache::get: the value of a live entry
CacheGet(c, k, t) == {e.value : e \in {x \in c[k] : ~IsExpired(x, t)}}

\* a hit counts as an access and restarts the entry's idle clock
CacheTouch(c, k, t) ==
    [c EXCEPT ![k] = {IF IsExpired(e, t) THEN e ELSE [e EXCEPT !.accessed = t] : e \in c[k]}]

\* (mutant) an insert that keeps the value of a live entry
CacheInsertKeepsOld(c, k, v, t) ==
    [c EXCEPT ![k] = IF CacheGet(c, k, t) = {}
                     THEN {[value |-> v, accessed |-> t]}
                     ELSE {[e EXCEPT !.accessed = t] : e \in c[k]}]

\* (mutant) an insert that adds an entry beside the one the key already has
CacheInsertAddsEntry(c, k, v, t) ==
    [c EXCEPT ![k] = @ \cup {[value |-> v, accessed |-> t]}]

\* Cache::insert: insert or overwrite
CacheInsert(c, k, v, t) == [c EXCEPT ![k] = {[value |-> v, accessed |-> t]}]

(* --------------------------- the handler ------------------------------ *)
\* (mutant) the length filter off by one
IsTrackedFromMin(content) == ~(StrLen(content) < MIN_MESSAGE_LENGTH)

\* line 33
IsTracked(content) == ~(StrLen(content) <= MIN_MESSAGE_LENGTH)

\* (mutant) Instant::saturating_duration_since
SaturatingDurationSince(n, t) == IF n >= t THEN {n - t} ELSE {0}

\* Instant::checked_duration_since
CheckedDurationSince(n, t) == IF n >= t THEN {n - t} ELSE {}

\* Duration::as_secs
AsSecs(d) == d \div TicksPerSec

\* (mutant) the window compared with < instead of <=
DuplicateDurationStrict(ts, n) ==
    {d \in UNION {CheckedDurationSince(n, t) : t \in ts} : AsSecs(d) < TIME_TO_IDLE_IN_SECS}

\* lines 53-56: the duration for which the message is treated as a duplicate
DuplicateDuration(ts, n) ==
    {d \in UNION {CheckedDurationSince(n, t) : t \in ts} : AsSecs(d) <= TIME_TO_IDLE_IN_SECS}

\* what is recorded of an evaluation that returned on line 34
Untracked(m) ==
    [tracked |-> FALSE, now |-> {}, getAt |-> {}, putAt |-> {},
     prior |-> {}, dup |-> FALSE, dur |-> {}, start |-> Len(log[m]), at |-> clock,
     dupPutOnly |-> FALSE, del |-> <<>>, dm |-> <<>>]

\* locals of a handler invocation that is not running
NoMsg == <<0, Text(0, "")>>

Init ==
    /\ clock = 0
    /\ cache = [k \in Inbound |-> {}]
    /\ writer = 0
    /\ readers = {}
    /\ pc = [h \in Handlers |-> "idle"]
    /\ msg = [h \in Handlers |-> NoMsg]
    /\ now = [h \in Handlers |-> 0]
    /\ timestamp = [h \in Handlers |-> {}]
    /\ tsPutOnly = [h \in Handlers |-> {}]
    /\ getAt = [h \in Handlers |-> 0]
    /\ start = [h \in Handlers |-> 0]
    /\ idx = [h \in Handlers |-> 0]
    /\ msgs = 0
    /\ log = [m \in Inbound |-> <<>>]

\* lines 32-47: a message arrives; short ones return at once, the others fetch
\* the cache handle, read the clock and build the key
\* (the dispatcher hands the message to the first free invocation slot)
Arrive(h, m) ==
    /\ pc[h] = "idle"
    /\ \A g \in Handlers : g < h => pc[g] # "idle"
    /\ msgs' = msgs + 1
    /\ IF IsTracked(m[2])
       THEN /\ pc' = [pc EXCEPT ![h] = "read"]
            /\ msg' = [msg EXCEPT ![h] = m]
            /\ now' = [now EXCEPT ![h] = clock]
            /\ start' = [start EXCEPT ![h] = Len(log[m])]
            /\ UNCHANGED log
       ELSE /\ log' = [log EXCEPT ![m] = Append(@, Untracked(m))]
            /\ UNCHANGED <<pc, msg, now, start>>
    /\ UNCHANGED <<clock, cache, writer, readers, timestamp, tsPutOnly, getAt, idx>>

\* any author posts any text
Message(h, m) ==
    /\ msgs < MaxMsgs
    /\ Arrive(h, m)

\* the author of Reposted posts it once more
Repost(h) ==
    /\ msgs < MaxReposts
    /\ Arrive(h, Reposted)

\* (mutant) the read guard outlives the lookup
AfterLookupKeepsGuard(rs, h) == rs

\* line 48: the read guard is a temporary of the block and is dropped with it
AfterLookup(rs, h) == rs \ {h}

\* the lookup of a cache whose idle clock only put restarts (spec 4.1): the
\* value of the last insert, for the idle duration after that insert
PutOnlyGet(k, t) ==
    IF Len(log[k]) = 0 THEN {}
    ELSE LET last == log[k][Len(log[k])]
         IN  {v \in last.now : \A p \in last.putAt : t - p < IdleTicks}

\* line 48: under the read lock, get the key's timestamp; the guard is dropped
\* at the end of the block
Read(h) ==
    /\ pc[h] = "read"
    /\ writer = 0
    /\ readers' = AfterLookup(readers \cup {h}, h)
    /\ timestamp' = [timestamp EXCEPT ![h] = CacheGet(cache, msg[h], clock)]
    /\ tsPutOnly' = [tsPutOnly EXCEPT ![h] = PutOnlyGet(msg[h], clock)]
    /\ cache' = CacheTouch(cache, msg[h], clock)
    /\ getAt' = [getAt EXCEPT ![h] = clock]
    /\ pc' = [pc EXCEPT ![h] = "wlock"]
    /\ UNCHANGED <<clock, writer, msg, now, start, idx, msgs, log>>

\* line 50: cache_lock.write().await
WriteLock(h) ==
    /\ pc[h] = "wlock"
    /\ writer = 0
    /\ readers = {}
    /\ writer' = h
    /\ pc' = [pc EXCEPT ![h] = "insert"]
    /\ UNCHANGED <<clock, cache, readers, msg, now, timestamp, tsPutOnly, getAt, start,
                   idx, msgs, log>>

\* what is recorded of an evaluation that ran to its decision
Evaluated(h, d) ==
    [tracked |-> TRUE, now |-> {now[h]}, getAt |-> {getAt[h]},
     putAt |-> {clock}, prior |-> timestamp[h], dup |-> d # {}, dur |-> d,
     start |-> start[h], at |-> clock,
     dupPutOnly |-> DuplicateDuration(tsPutOnly[h], now[h]) # {},
     del |-> <<>>, dm |-> <<>>]

\* lines 50-56: insert(key, now) under the write lock, drop the guard, decide
Insert(h) ==
    /\ pc[h] = "insert"
    /\ writer = h
    /\ cache' = CacheInsert(cache, msg[h], now[h], clock)
    /\ writer' = 0
    /\ LET d == DuplicateDuration(timestamp[h], now[h])
       IN  /\ log' = [log EXCEPT ![msg[h]] = Append(@, Evaluated(h, d))]
           /\ pc' = [pc EXCEPT ![h] = IF d # {} THEN "delete" ELSE "idle"]
           /\ msg' = [msg EXCEPT ![h] = IF d # {} THEN @ ELSE NoMsg]
           /\ idx' = [idx EXCEPT ![h] = IF d # {} THEN Len(log[msg[h]]) + 1 ELSE 0]
    /\ now' = [now EXCEPT ![h] = 0]
    /\ timestamp' = [timestamp EXCEPT ![h] = {}]
    /\ tsPutOnly' = [tsPutOnly EXCEPT ![h] = {}]
    /\ getAt' = [getAt EXCEPT ![h] = 0]
    /\ start' = [start EXCEPT ![h] = 0]
    /\ UNCHANGED <<clock, readers, msgs>>

\* (mutant) the direct message is attempted whether the deletion succeeded or not
DeleteThenAlwaysDm(h, ok) ==
    /\ pc[h] = "delete"
    /\ log' = [log EXCEPT ![msg[h]][idx[h]].del = Append(@, ok)]
    /\ pc' = [pc EXCEPT ![h] = "dm"]
    /\ UNCHANGED <<clock, cache, writer, readers, msg, now, timestamp, tsPutOnly, getAt,
                   start, idx, msgs>>

\* (mutant) a failed deletion takes the entry of the message out of the cache
DeleteRollsBack(h, ok) ==
    /\ pc[h] = "delete"
    /\ log' = [log EXCEPT ![msg[h]][idx[h]].del = Append(@, ok)]
    /\ pc' = [pc EXCEPT ![h] = IF ok THEN "dm" ELSE "idle"]
    /\ msg' = [msg EXCEPT ![h] = IF ok THEN @ ELSE NoMsg]
    /\ idx' = [idx EXCEPT ![h] = IF ok THEN @ ELSE 0]
    /\ cache' = IF ok THEN cache ELSE [cache EXCEPT ![msg[h]] = {}]
    /\ UNCHANGED <<clock, writer, readers, now, timestamp, tsPutOnly, getAt, start, msgs>>

\* line 70: msg.delete, which may fail; on failure the handler logs and returns
Delete(h, ok) ==
    /\ pc[h] = "delete"
    /\ log' = [log EXCEPT ![msg[h]][idx[h]].del = Append(@, ok)]
    /\ pc' = [pc EXCEPT ![h] = IF ok THEN "dm" ELSE "idle"]
    /\ msg' = [msg EXCEPT ![h] = IF ok THEN @ ELSE NoMsg]
    /\ idx' = [idx EXCEPT ![h] = IF ok THEN @ ELSE 0]
    /\ UNCHANGED <<clock, cache, writer, readers, now, timestamp, tsPutOnly, getAt, start,
                   msgs>>

\* line 72: msg.author.dm, which may fail; either way the handler returns
Dm(h, ok) ==
    /\ pc[h] = "dm"
    /\ log' = [log EXCEPT ![msg[h]][idx[h]].dm = Append(@, ok)]
    /\ pc' = [pc EXCEPT ![h] = "idle"]
    /\ msg' = [msg EXCEPT ![h] = NoMsg]
    /\ idx' = [idx EXCEPT ![h] = 0]
    /\ UNCHANGED <<clock, cache, writer, readers, now, timestamp, tsPutOnly, getAt, start,
                   msgs>>

\* (mutant) housekeeping that removes an entry whether it has expired or not
EvictLive(k) ==
    /\ cache[k] # {}
    /\ cache' = [cache EXCEPT ![k] = {}]
    /\ UNCHANGED <<clock, writer, readers, pc, msg, now, timestamp, tsPutOnly, getAt,
                   start, idx, msgs, log>>

\* moka's housekeeping removes an expired entry
Evict(k) ==
    /\ \E e \in cache[k] : IsExpired(e, clock)
    /\ cache' = [cache EXCEPT ![k] = {}]
    /\ UNCHANGED <<clock, writer, readers, pc, msg, now, timestamp, tsPutOnly, getAt,
                   start, idx, msgs, log>>

\* time passes
Tick(t) ==
    /\ t > clock
    /\ clock' = t
    /\ UNCHANGED <<cache, writer, readers, pc, msg, now, timestamp, tsPutOnly, getAt,
                   start, idx, msgs, log>>

Next ==
    \/ \E h \in Handlers, m \in Inbound : Message(h, m)
    \/ \E h \in Handlers : Read(h)
    \/ \E h \in Handlers : WriteLock(h)
    \/ \E h \in Handlers : Insert(h)
    \/ \E h \in Handlers, ok \in BOOLEAN : Delete(h, ok)
    \/ \E h \in Handlers, ok \in BOOLEAN : Dm(h, ok)
    \/ \E k \in Inbound : Evict(k)
    \/ \E t \in Instants : Tick(t)

Spec == Init /\ [][Next]_vars

\* Spec under fair scheduling: the locks of tokio are fair and a granted
\* handler runs on, so a handler waiting for the cache lock gets it and a
\* handler holding the write lock completes its insert
SpecFair ==
    /\ Init
    /\ [][Next]_vars
    /\ \A h \in Handlers :
           /\ SF_vars(Read(h))
           /\ SF_vars(WriteLock(h))
           /\ WF_vars(Insert(h))

\* one author reposting one text
NextRepost ==
    \/ \E h \in Handlers : Repost(h)
    \/ \E h \in Handlers : Read(h)
    \/ \E h \in Handlers : WriteLock(h)
    \/ \E h \in Handlers : Insert(h)
    \/ \E h \in Handlers, ok \in BOOLEAN : Delete(h, ok)
    \/ \E h \in Handlers, ok \in BOOLEAN : Dm(h, ok)
    \/ \E k \in Inbound : Evict(k)
    \/ \E t \in Instants : Tick(t)

SpecRepost == Init /\ [][NextRepost]_vars

(* ===================== reading the record of a run ===================== *)
\* handler invocations that are between capturing `now` and their decision
InFlight(k) == {h \in Handlers : pc[h] \in {"read", "wlock", "insert"} /\ msg[h] = k}

\* the i-th completed evaluation of k ran alone: it captured `now` after the
\* (i-1)-th had decided, and every other evaluation of k began after it decided
RanAlone(k, i) ==
    /\ log[k][i].start = i - 1
    /\ \A j \in (i + 1)..Len(log[k]) : log[k][j].start >= i
    /\ \A h \in InFlight(k) : start[h] >= i

\* the `now` of the i-th completed evaluation of k
NowOf(k, i) == CHOOSE t \in log[k][i].now : TRUE
\* the cache clock at its get and at its insert
GetAtOf(k, i) == CHOOSE t \in log[k][i].getAt : TRUE
PutAtOf(k, i) == CHOOSE t \in log[k][i].putAt : TRUE

\* k was evaluated twice, one evaluation after the other, from an empty cache
TwoInARow(k) ==
    /\ Len(log[k]) >= 2
    /\ RanAlone(k, 1)
    /\ RanAlone(k, 2)

\* the i-th completed evaluation of k decided within a second of reading `now`
Prompt(k, i) == PutAtOf(k, i) - NowOf(k, i) <= TicksPerSec

(* ------------------------------- C1 ------------------------------------ *)
\* C1: NumHandlers concurrent evaluations of one key at one instant, the key
\* absent beforehand, yield exactly one non-duplicate and otherwise duplicates.
C1_OneFirstWriter ==
    \A k \in Keys :
        (/\ Len(log[k]) = NumHandlers
         /\ InFlight(k) = {}
         /\ \A i \in 1..NumHandlers : log[k][i].start = 0
         /\ \A i \in 1..NumHandlers : log[k][i].now = log[k][1].now)
        => Cardinality({i \in 1..NumHandlers : ~log[k][i].dup}) = 1

C3_Original ==
    \A k \in Keys :
        (/\ TwoInARow(k)
         /\ Prompt(k, 1) /\ Prompt(k, 2)
         /\ NowOf(k, 2) - NowOf(k, 1) >= 0
         /\ NowOf(k, 2) - NowOf(k, 1) <= IdleTicks)
        => /\ ~log[k][1].dup
           /\ log[k][2].dup
           /\ log[k][2].dur = {NowOf(k, 2) - NowOf(k, 1)}

\* C3 as amended: the same, provided the second evaluation's lookup runs less
\* than the idle duration after the first evaluation's insert (both by the
\* cache's clock).
C3_RepeatWithinWindow ==
    \A k \in Keys :
        (/\ TwoInARow(k)
         /\ NowOf(k, 2) - NowOf(k, 1) >= 0
         /\ NowOf(k, 2) - NowOf(k, 1) <= IdleTicks
         /\ GetAtOf(k, 2) - PutAtOf(k, 1) < IdleTicks)
        => /\ ~log[k][1].dup
           /\ log[k][2].dup
           /\ log[k][2].dur = {NowOf(k, 2) - NowOf(k, 1)}

\* the boundary: a repeat exactly the idle duration after the first post
C3_Witness ==
    \E k \in Keys :
        /\ TwoInARow(k)
        /\ NowOf(k, 2) - NowOf(k, 1) = IdleTicks
        /\ GetAtOf(k, 2) - PutAtOf(k, 1) < IdleTicks
        /\ log[k][2].dup

(* ------------------------------- C4 ------------------------------------ *)
\* C4: two evaluations of a key in a row, at t1 and t2 with t2 - t1 greater
\* than the idle duration (by however little), are both non-duplicate.
C4_RepeatAfterWindow ==
    \A k \in Keys :
        (/\ TwoInARow(k)
         /\ Prompt(k, 1) /\ Prompt(k, 2)
         /\ NowOf(k, 2) - NowOf(k, 1) > IdleTicks)
        => /\ ~log[k][1].dup
           /\ ~log[k][2].dup

(* ------------------------------- C5 ------------------------------------ *)
\* the entry of a key nobody is evaluating holds the `now` of the evaluation
\* that completed last
HoldsLastNow ==
    \A k \in Keys :
        (/\ Len(log[k]) > 0
         /\ InFlight(k) = {})
        => \A e \in cache[k] : e.value = NowOf(k, Len(log[k]))

\* ... and the entry is there as long as it has not expired
EntryPresent ==
    \A k \in Keys :
        (/\ Len(log[k]) > 0
         /\ InFlight(k) = {}
         /\ clock - PutAtOf(k, Len(log[k])) < IdleTicks)
        => cache[k] # {}

\* C5: once an evaluation of a tracked text has completed and no other
\* evaluation of its key is in flight, the cache entry of the key holds that
\* evaluation's own `now`, whatever the decision was (until the entry is
\* reclaimed after expiry).
C5_PutAlways == HoldsLastNow /\ EntryPresent

\* a duplicate decision was followed by the write of the evaluation's own now
C5_Witness ==
    \E k \in Keys :
        /\ Len(log[k]) = 2
        /\ InFlight(k) = {}
        /\ RanAlone(k, 2)
        /\ log[k][2].dup
        /\ NowOf(k, 2) > NowOf(k, 1)
        /\ cache[k] = {[value |-> NowOf(k, 2), accessed |-> PutAtOf(k, 2)]}

(* ------------------------------- C6 ------------------------------------ *)
\* C6: in a series of evaluations of one key, each run alone and at
\* non-decreasing times, every evaluation after the first is a duplicate if
\* and only if its `now` is at most the idle duration after the `now` of the
\* evaluation just before it (stated for evaluations that decide within a
\* second of reading `now` and whose lookup finds the entry of the evaluation
\* before them unexpired).
C6_WindowRestarts ==
    \A k \in Keys :
        \A i \in 2..Len(log[k]) :
            (/\ \A j \in 1..i : RanAlone(k, j) /\ Prompt(k, j)
             /\ NowOf(k, i) >= NowOf(k, i - 1)
             /\ GetAtOf(k, i) - PutAtOf(k, i - 1) < IdleTicks)
            => (log[k][i].dup <=> NowOf(k, i) - NowOf(k, i - 1) <= IdleTicks)

(* ------------------------------- C7 ------------------------------------ *)
\* C7: a duplicate decision is made only if the cache returned a timestamp
\* written by an earlier evaluation of exactly the same (author, text) pair
\* and 0 <= now - prior <= idle duration (stated for evaluations that decide
\* within a second of reading `now`).
C7_DuplicateOnlyWithinWindow ==
    \A k \in Keys :
        (\A j \in 1..Len(log[k]) : Prompt(k, j)) =>
            \A i \in 1..Len(log[k]) :
                log[k][i].dup =>
                    \E p \in log[k][i].prior :
                        /\ \E j \in 1..Len(log[k]) : j # i /\ log[k][j].now = {p}
                        /\ 0 <= NowOf(k, i) - p
                        /\ NowOf(k, i) - p <= IdleTicks

(* ------------------------------- C8 ------------------------------------ *)
\* C8: an evaluation that read a timestamp later than its own `now` is
\* non-duplicate, reports no elapsed time, and has written its `now`.
C8_ClockUnderflow ==
    \A k \in Keys :
        \A i \in 1..Len(log[k]) :
            (\E p \in log[k][i].prior : p > NowOf(k, i)) =>
                /\ ~log[k][i].dup
                /\ log[k][i].dur = {}
                /\ (i = Len(log[k]) /\ InFlight(k) = {}) =>
                       \A e \in cache[k] : e.value = NowOf(k, i)

\* an evaluation read the timestamp of another one that captured a later `now`
C8_Witness ==
    \E k \in Keys :
        /\ Len(log[k]) = 2
        /\ InFlight(k) = {}
        /\ log[k][2].prior = {NowOf(k, 1)}
        /\ NowOf(k, 1) > NowOf(k, 2)
        /\ cache[k] = {[value |-> NowOf(k, 2), accessed |-> PutAtOf(k, 2)]}

(* ------------------------------- C9 ------------------------------------ *)
\* the step in which handler h runs its lookup (line 48)
LookupStep(h) == pc[h] = "read" /\ pc'[h] = "wlock"

\* C9: a lookup returns absent for a key that was never inserted, and never
\* returns the timestamp of an entry whose most recent put lies the idle
\* duration or more in the past.
C9_NoExpiredLookup ==
    [][\A h \in Handlers :
         LookupStep(h) =>
             /\ Len(log[msg[h]]) = 0 => timestamp'[h] = {}
             /\ timestamp'[h] # {} =>
                    clock - PutAtOf(msg[h], Len(log[msg[h]])) < IdleTicks]_vars

(* ------------------------------- C10 ----------------------------------- *)
\* C10: a timestamp returned by a lookup is within the idle duration of the
\* time of the lookup (stated for evaluations that decide within a second of
\* reading `now`).
C10_ReturnedTimestampFresh ==
    \A k \in Keys :
        (\A j \in 1..Len(log[k]) : Prompt(k, j)) =>
            \A i \in 1..Len(log[k]) :
                \A p \in log[k][i].prior : GetAtOf(k, i) - p <= IdleTicks

(* ------------------------------- C11 ----------------------------------- *)
\* C11: after two inserts under one key, the first with a timestamp no later
\* than the second, a lookup made before the entry expires returns the second
\* timestamp and never the first; the key keeps a single entry.
C11_SecondPutWins ==
    /\ \A k \in Inbound : Cardinality(cache[k]) <= 1
    /\ \A k \in Keys :
           \A i \in 3..Len(log[k]) :
               (RanAlone(k, i) /\ NowOf(k, i - 2) <= NowOf(k, i - 1)) =>
                   /\ log[k][i].prior \subseteq {NowOf(k, i - 1)}
                   /\ GetAtOf(k, i) - PutAtOf(k, i - 1) < IdleTicks =>
                          log[k][i].prior = {NowOf(k, i - 1)}

\* two inserts with different timestamps, then a lookup that returned the second
C11_Witness ==
    \E k \in Keys :
        /\ Len(log[k]) = 3
        /\ RanAlone(k, 3)
        /\ NowOf(k, 1) < NowOf(k, 2)
        /\ log[k][3].prior = {NowOf(k, 2)}

(* ------------------------------- C12 ----------------------------------- *)
\* the step in which the deletion or the direct message of handler h fails
ActionFails(h) ==
    \/ pc[h] = "delete" /\ log'[msg[h]][idx[h]].del = <<FALSE>>
    \/ pc[h] = "dm" /\ log'[msg[h]][idx[h]].dm = <<FALSE>>

\* the deletion or the direct message of the i-th evaluation of k has failed
ActionFailed(k, i) == log[k][i].del = <<FALSE>> \/ log[k][i].dm = <<FALSE>>

\* C12: a failed deletion or direct message leaves every cache entry as it
\* was, the insert of the flagged message included, and the next repost
\* within the window, whose lookup runs within the idle duration of that
\* insert, is flagged too.
C12_ActionFailureKeepsCache ==
    /\ [][\A h \in Handlers : ActionFails(h) => cache' = cache]_vars
    /\ [](\A k \in Keys :
             \A i \in 1..(Len(log[k]) - 1) :
                 (/\ ActionFailed(k, i)
                  /\ RanAlone(k, i + 1)
                  /\ NowOf(k, i + 1) - NowOf(k, i) <= IdleTicks
                  /\ GetAtOf(k, i + 1) - PutAtOf(k, i) < IdleTicks) =>
                     /\ log[k][i + 1].prior = {NowOf(k, i)}
                     /\ log[k][i + 1].dup)

\* a flagged message whose deletion failed, and a later repost flagged as well
C12_Witness ==
    \E k \in Keys :
        /\ Len(log[k]) = 3
        /\ log[k][2].dup
        /\ log[k][2].del = <<FALSE>>
        /\ RanAlone(k, 3)
        /\ log[k][3].dup
        /\ cache[k] = {[value |-> NowOf(k, 3), accessed |-> PutAtOf(k, 3)]}

(* ------------------------------- C13 ----------------------------------- *)
\* C13: the cache of main, whose lookups restart the idle clock too, gives
\* every evaluation the decision that a cache restarted by put alone gives it
\* (stated for evaluations that decide within a second of reading `now`).
C13_ReadRefreshUnobservable ==
    \A k \in Keys :
        (\A j \in 1..Len(log[k]) : Prompt(k, j)) =>
            \A i \in 1..Len(log[k]) : log[k][i].dup = log[k][i].dupPutOnly

(* ------------------------------- C14 ----------------------------------- *)
\* C14: what a lookup of a key would return changes in three ways only: an
\* insert makes an absent entry present with the writer's `now`, an insert
\* replaces a present timestamp by the writer's `now`, and the passage of
\* time expires a present entry; no step of a handler, in the evaluation or
\* in the action layer, makes a present entry absent.
C14_EntryTransitions ==
    [][\A k \in Inbound :
         LET before == CacheGet(cache, k, clock)
             after == CacheGet(cache', k, clock')
         IN  after # before =>
                 \/ \E h \in Handlers :
                        /\ pc[h] = "insert" /\ pc'[h] # "insert"
                        /\ msg[h] = k
                        /\ after = {now[h]}
                 \/ /\ after = {}
                    /\ clock' > clock
                    /\ pc' = pc
                    /\ \A e \in cache[k] : IsExpired(e, clock')]_vars

\* a key whose entry was inserted, overwritten with a later timestamp, and
\* has expired since
C14_Witness ==
    \E k \in Keys :
        /\ Len(log[k]) = 2
        /\ log[k][1].prior = {}
        /\ log[k][2].prior = {NowOf(k, 1)}
        /\ NowOf(k, 2) > NowOf(k, 1)
        /\ cache[k] = {[value |-> NowOf(k, 2), accessed |-> PutAtOf(k, 2)]}
        /\ CacheGet(cache, k, clock) = {}

(* ------------------------------- C15 ----------------------------------- *)
\* the cache clock at the last insert under k
LastPut(k) == PutAtOf(k, Len(log[k]))

\* the keys a lookup would find at this instant
LiveKeys == {k \in Inbound : CacheGet(cache, k, clock) # {}}

\* the keys under evaluation or inserted less than the idle duration ago
RecentKeys ==
    {k \in Keys : InFlight(k) # {} \/ (Len(log[k]) > 0 /\ clock - LastPut(k) < IdleTicks)}

\* C15: once no evaluation of a key is under way, a lookup of the key finds
\* its entry until the idle duration after its last insert and finds nothing
\* from then on; the live entries are among the keys under evaluation or
\* inserted within the last idle duration.
C15_IdleExpiry ==
    /\ \A k \in Keys :
           (InFlight(k) = {} /\ Len(log[k]) > 0) =>
               (CacheGet(cache, k, clock) = {} <=> clock - LastPut(k) >= IdleTicks)
    /\ LiveKeys \subseteq RecentKeys

\* one key has gone absent the idle duration after its last insert, its
\* entry not yet removed, while a key inserted since is live
C15_Witness ==
    \E k \in Keys :
        /\ InFlight(k) = {}
        /\ Len(log[k]) > 0
        /\ clock - LastPut(k) = IdleTicks
        /\ cache[k] # {}
        /\ k \notin LiveKeys
        /\ LiveKeys # {}

(* ------------------------------- C16 ----------------------------------- *)
\* C16: a step of a handler leaves the entry of every key but its own as it
\* was, timestamp and idle clock alike, and the timestamp an evaluation reads
\* is the `now` of an earlier evaluation of its own key or nothing.
C16_OtherKeysUntouched ==
    /\ [][\A h \in Handlers :
            pc'[h] # pc[h] =>
                \A k \in Inbound \ {msg[h], msg'[h]} : cache'[k] = cache[k]]_vars
    /\ [](\A k \in Keys :
             \A i \in 1..Len(log[k]) :
                 log[k][i].prior \subseteq {NowOf(k, j) : j \in 1..(i - 1)})

\* the same text from two authors: the second is evaluated while the entry
\* of the first is live, reads nothing, and leaves that entry as it was
C16_Witness ==
    \E k1, k2 \in Keys :
        /\ k1[1] # k2[1] /\ k1[2] = k2[2]
        /\ Len(log[k1]) = 1 /\ Len(log[k2]) = 1
        /\ PutAtOf(k1, 1) < GetAtOf(k2, 1)
        /\ GetAtOf(k2, 1) - PutAtOf(k1, 1) < IdleTicks
        /\ log[k2][1].prior = {}
        /\ cache[k1] = {[value |-> NowOf(k1, 1), accessed |-> PutAtOf(k1, 1)]}
        /\ cache[k2] = {[value |-> NowOf(k2, 1), accessed |-> PutAtOf(k2, 1)]}

(* ------------------------------- C17 ----------------------------------- *)
\* the `now` values of the completed evaluations of k
NowsOf(k) == {NowOf(k, i) : i \in 1..Len(log[k])}

\* C17: whatever the interleaving, the timestamp stored for a key is never
\* smaller than the `now` of an evaluation of the key that has written, so
\* once all have finished the entry holds the largest `now` among them.
C17_TimestampMonotone ==
    \A k \in Keys :
        \A e \in cache[k] :
            \A t \in NowsOf(k) : e.value >= t

(* ------------------------------- C18 ----------------------------------- *)
\* handler h is waiting for a lock of the cache
Waiting(h) == pc[h] \in {"read", "wlock"}

\* handler h holds a lock of the cache
Holding(h) == h \in readers \/ writer = h

\* C18: no handler holds a lock of the cache while it waits for one, and
\* under fair scheduling every evaluation that has started performs its
\* insert and reaches its decision.
C18_EvaluationTerminates ==
    /\ [](\A h \in Handlers : Waiting(h) => ~Holding(h))
    /\ \A h \in Handlers :
           (pc[h] \in {"read", "wlock", "insert"}) ~> (pc[h] \in {"idle", "delete"})

\* two handlers contend for the write lock after both ran their lookup
C18_Witness ==
    \E h1, h2 \in Handlers :
        /\ writer = h1 /\ pc[h1] = "insert"
        /\ pc[h2] = "wlock"
        /\ msg[h1] = msg[h2]

(* ------------------------------- C19 ----------------------------------- *)
\* C19: for every message the deletion is attempted at most once and only
\* after a duplicate decision, the direct message is attempted at most once
\* and only after the deletion succeeded, a failed deletion is followed by no
\* direct message, and a message not decided duplicate gets neither.
C19_ActionOrder ==
    /\ \A k \in Inbound :
           \A i \in 1..Len(log[k]) :
               LET r == log[k][i]
               IN  /\ Len(r.del) <= 1
                   /\ Len(r.dm) <= 1
                   /\ r.del # <<>> => r.dup
                   /\ r.dm # <<>> => r.del = <<TRUE>>
                   /\ r.del = <<FALSE>> => r.dm = <<>>
                   /\ ~r.dup => (r.del = <<>> /\ r.dm = <<>>)
    /\ \A h \in Handlers :
           /\ pc[h] \in {"delete", "dm"} => log[msg[h]][idx[h]].dup
           /\ pc[h] = "delete" => log[msg[h]][idx[h]].del = <<>>
           /\ pc[h] = "dm" =>
                  (log[msg[h]][idx[h]].del = <<TRUE>> /\ log[msg[h]][idx[h]].dm = <<>>)

\* a first post with no action, a repost whose deletion failed and got no
\* direct message, and a repost that was deleted and then notified
C19_Witness ==
    \E k \in Keys :
        /\ Len(log[k]) = 3
        /\ ~log[k][1].dup /\ log[k][1].del = <<>> /\ log[k][1].dm = <<>>
        /\ log[k][2].dup /\ log[k][2].del = <<FALSE>> /\ log[k][2].dm = <<>>
        /\ log[k][3].dup /\ log[k][3].del = <<TRUE>> /\ log[k][3].dm = <<TRUE>>
        /\ \A h \in Handlers : pc[h] = "idle"


=============================================================================
